---- MODULE Spec2Model ----
(***************************************************************************)
(* State-machine model of the oidc_auth package: the OIDCController        *)
(* (login, callback, logout, exchange_token), the in-memory session store  *)
(* and the request interceptor in front of the example application.        *)
(*                                                                         *)
(* Handlers are coroutines: a handler runs atomically between two          *)
(* `await`s on an outbound provider call, so each handler is one action    *)
(* per segment between awaits.  Several requests are in flight at once     *)
(* (one per request slot).  A response is delivered to its browser in the   *)
(* step that produces it.                                                  *)
(*                                                                         *)
(* Environment assumptions, stated once:                                   *)
(*  - uuid.uuid4() returns a value it has not returned before and that no  *)
(*    client has presented before it was issued (128-bit random values);   *)
(*    the set `issued` records the values already produced.                *)
(*  - the identity provider answers every call with a status and a JSON    *)
(*    object; transport faults and non-JSON bodies are outside the model.  *)
(*  - OIDCSettings() takes each required field from the environment: an    *)
(*    unset variable is a validation error, any string (the empty one      *)
(*    included) is accepted for a field declared `str`.                    *)
(***************************************************************************)
EXTENDS Integers, FiniteSets, Sequences, TLC

\* ------------------------------------------------------------------ bounds
MaxRequests == 3     \* how many requests are made in one run

\* ------------------------------------------------------------ value spaces
NONE == "None"                       \* Python None / absent cookie / absent parameter
EMPTY == ""                          \* the empty string
Falsy(x) == x \in {NONE, EMPTY}      \* Python `not x` on an Optional[str]

Browsers == {"b1", "b2"}
Slots == 1..MaxRequests              \* the n-th request made runs in slot n
\* uuid4's values are opaque: the n-th value produced is called "uuid<n>".
UUIDs == {"uuid" \o ToString(i) : i \in 1..MaxRequests}
Forged == "forged"                   \* a cookie value the server never issued

Codes == {NONE, EMPTY, "code1"}      \* the `code` query parameter
AccessTokens == {NONE, EMPTY, "tok1"}         \* tokens.get("access_token")
ExchangedTokens == {NONE, "xtok1"}   \* new_tokens.get("access_token")
OK == 200
TokenStatuses == {OK, 400}
UserStatuses == {OK, 401}
\* What the userinfo endpoint's JSON body can be, per status.
UserBodies(status) == IF status = OK THEN {"alice"} ELSE {"invalid_token"}
TargetClients == {"downstream-api-client-id"}
\* The application's routes (main.py) that are requested in the model.
AppPaths == {"/", "/public", "/protected", "/api/data"}
\* The settings declared with Field(...): no default.
RequiredFields ==
    {"CLIENT_ID", "CLIENT_SECRET", "ISSUER_URL", "AUTHORIZE_URL", "TOKEN_URL",
     "USERINFO_URL"}
\* What the environment can hold for OIDC_<field>: unset, empty, or a value.
EnvValues == {NONE, EMPTY, "set"}
FullEnviron == [f \in RequiredFields |-> "set"]

VARIABLES
    session_store,   \* InMemorySessionStore: session id -> record
    issued,          \* values uuid4 has produced so far
    jar,             \* each browser's session_id cookie (NONE when it has none)
    reqs,            \* request slots: the suspended handler coroutine in each
    last,            \* the request completed last: its inputs and its outcome
    loggedOut,       \* cookie values for which a logout request has completed
    created,         \* session ids under which a callback has stored a record
    awaiting,        \* each browser's `state` value from its last login (NONE when none)
    environ,         \* the process environment: OIDC_<field> -> value
    controller       \* oidc_controller: whether start-up built it, and its config

vars == <<session_store, issued, jar, reqs, last, loggedOut, created, awaiting,
          environ, controller>>

\* ------------------------------------------------------------ session store
\* dict.__setitem__
StoreSetOnly(store, k, v) == [x \in {k} |-> v]
StoreSet(store, k, v) ==
    [x \in DOMAIN store \cup {k} |-> IF x = k THEN v ELSE store[x]]

\* dict.__delitem__
StoreDelNothing(store, k) == store
StoreDel(store, k) == [x \in DOMAIN store \ {k} |-> store[x]]

\* dict.__contains__
StoreContains(store, k) == k \in DOMAIN store

\* dict.__getitem__: the record, or KeyError raised
KeyError == [user |-> "KeyError", access_token |-> "KeyError"]
StoreGet(store, k) == IF k \in DOMAIN store THEN store[k] ELSE KeyError

EmptyStore == [x \in {} |-> NONE]

\* ------------------------------------------------------------------ uuid4
\* The outcomes str(uuid.uuid4()) can have, given the values produced so far.
uuid4Repeating(used) == UUIDs
uuid4(used) == {"uuid" \o ToString(Cardinality(used) + 1)}

\* ---------------------------------------------------------------- responses
NoResponse ==
    [kind |-> "none", status |-> 0, body |-> NONE, location |-> NONE, cookies |-> <<>>]

JSONResponse(content, status_code) ==
    [kind |-> "json", status |-> status_code, body |-> content, location |-> NONE,
     cookies |-> <<>>]

\* starlette's RedirectResponse: status_code defaults to 307
RedirectResponse(url) ==
    [kind |-> "redirect", status |-> 307, body |-> NONE, location |-> url,
     cookies |-> <<>>]

\* a route returning a str under response_class=HTMLResponse, or a dict
HTMLResponse(content) ==
    [kind |-> "html", status |-> OK, body |-> content, location |-> NONE,
     cookies |-> <<>>]

\* Response.set_cookie(key, value, httponly=True, ...)
set_cookie(response, k, v) ==
    [response EXCEPT !.cookies =
        Append(@, [key |-> k, value |-> v, httponly |-> TRUE, expired |-> FALSE])]

\* Response.delete_cookie(key): a Set-Cookie with an empty value that expires at once
delete_cookie(response, k) ==
    [response EXCEPT !.cookies =
        Append(@, [key |-> k, value |-> EMPTY, httponly |-> FALSE, expired |-> TRUE])]

\* ------------------------------------------------------------ request slots
IdleReq ==
    [op |-> "idle", pc |-> "idle", browser |-> NONE, cookie |-> NONE, code |-> NONE,
     path |-> NONE, sid |-> NONE, found |-> FALSE, token_status |-> 0,
     access_token |-> NONE, user_status |-> 0, user_info |-> NONE,
     exch_status |-> 0, exch_body |-> NONE, result |-> NONE, invoked |-> FALSE,
     identity |-> NONE, response |-> NoResponse,
     state |-> NONE,      \* the `state` query parameter of a callback request
     awaited |-> NONE,    \* the state value its browser held when the request came
     calls |-> <<>>]      \* provider endpoints the handler has called, in order

ClosedReq == [IdleReq EXCEPT !.op = "closed", !.pc = "closed"]

\* Slot r takes the next request: the application is up and every earlier slot
\* has been used.
Fresh(r) ==
    /\ controller.status = "ready"
    /\ reqs[r].pc = "idle"
    /\ \A q \in Slots : q < r => reqs[q].pc # "idle"

\* Cookie values a request can carry: the browser's own cookie, none, a made-up
\* value, or any value uuid4 has already produced (stale or stolen).
RequestCookies(b) == {jar[b], NONE, Forged} \cup issued

RECURSIVE ApplyCookies(_, _)
\* The browser's session_id cookie after the Set-Cookie headers of a response.
ApplyCookies(current, cookies) ==
    IF cookies = <<>> THEN current
    ELSE LET h == Head(cookies)
             next == IF h.key # "session_id" THEN current
                     ELSE IF h.expired THEN NONE ELSE h.value
         IN  ApplyCookies(next, Tail(cookies))

\* The request in `done` (its outcome filled in) completes: the response goes to
\* its browser, the slot closes.  The browser keeps the state value of a login
\* redirect until a callback of its own has been answered.
Complete(r, done) ==
    /\ last' = [done EXCEPT !.pc = "done"]
    /\ reqs' = [reqs EXCEPT ![r] = ClosedReq]
    /\ jar' = IF done.browser = NONE THEN jar
              ELSE [jar EXCEPT ![done.browser] = ApplyCookies(@, done.response.cookies)]
    /\ awaiting' = IF done.op = "login"
                   THEN [awaiting EXCEPT ![done.browser] = done.response.body]
                   ELSE IF done.op = "callback"
                   THEN [awaiting EXCEPT ![done.browser] = NONE]
                   ELSE awaiting

\* ---------------------------------------------------------------- start-up
NoController == [status |-> "none", config |-> [f \in RequiredFields |-> NONE]]

\* OIDCSettings(): every required field must be given; a field declared `str`
\* takes any string.
SettingsValid(env) == \A f \in RequiredFields : env[f] # NONE

\* main.py at import: settings = OIDCSettings(); OIDCController(config=settings).
\* __init__ stores the config as it is.
Startup ==
    /\ controller.status = "none"
    /\ controller' = IF SettingsValid(environ)
                     THEN [status |-> "ready", config |-> environ]
                     ELSE [status |-> "failed", config |-> NoController.config]
    /\ UNCHANGED <<session_store, issued, jar, reqs, last, loggedOut, created,
                   awaiting, environ>>

InitRequests ==
    /\ session_store = EmptyStore
    /\ issued = {}
    /\ jar = [b \in Browsers |-> NONE]
    /\ reqs = [r \in Slots |-> IdleReq]
    /\ last = IdleReq
    /\ loggedOut = {}
    /\ created = {}
    /\ awaiting = [b \in Browsers |-> NONE]
    /\ controller = NoController

\* The process starts with every required setting given.
Init == InitRequests /\ environ = FullEnviron

\* The process starts with any environment.
InitConfig ==
    InitRequests /\ environ \in [RequiredFields -> EnvValues]

\* ------------------------------------------------------------------- login
\* The redirect login returns: the authorization URL carrying the state value.
LoginRedirect(state) ==
    [RedirectResponse(controller.config["AUTHORIZE_URL"]) EXCEPT !.body = state]

\* OIDCController.login has no await: the whole handler is one step.
Login(r, b) ==
    /\ Fresh(r)
    /\ \E state \in uuid4(issued) :
        /\ issued' = issued \cup {state}
        /\ Complete(r, [IdleReq EXCEPT !.op = "login", !.browser = b,
                                       !.response = LoginRedirect(state)])
    /\ UNCHANGED <<session_store, loggedOut, created, environ, controller>>

\* ---------------------------------------------------------------- callback
\* The record callback persists (controller.py "Persistence").
SessionRecordSwapped(user_info, access_token) ==
    [user |-> access_token, access_token |-> user_info]
SessionRecord(user_info, access_token) ==
    [user |-> user_info, access_token |-> access_token]

\* The success response of callback: redirect to "/" carrying the session cookie.
CallbackSuccessResponseNoCookie(session_id) == RedirectResponse("/")
CallbackSuccessResponse(session_id) ==
    set_cookie(RedirectResponse("/"), "session_id", session_id)

\* `if not code`: the code parameter is absent or empty.
MissingCodeNoneOnly(code) == code = NONE
MissingCode(code) == Falsy(code)

\* `if token_resp.status_code != 200`
TokenFailedNever(status) == FALSE
TokenFailed(status) == status # OK

\* The `state` query parameter a callback request can carry: none, or a state
\* value some login has handed out.  callback does not read it.
StateParams == {NONE} \cup {awaiting[b] : b \in Browsers}

\* callback up to its first await: read `code`, reject when missing, else post
\* the code to the token endpoint and suspend.
CallbackStart(r, b) ==
    /\ Fresh(r)
    /\ \E code \in Codes, st \in StateParams :
        LET req == [IdleReq EXCEPT !.op = "callback", !.browser = b, !.code = code,
                                   !.state = st, !.awaited = awaiting[b]]
        IN  IF MissingCode(code)
            THEN Complete(r, [req EXCEPT !.response = JSONResponse("Missing code", 400)])
            ELSE /\ reqs' = [reqs EXCEPT ![r] = [req EXCEPT !.pc = "await_token",
                                                            !.calls = <<"token">>]]
                 /\ UNCHANGED <<jar, last, awaiting>>
    /\ UNCHANGED <<session_store, issued, loggedOut, created, environ, controller>>

\* callback resumed with the token endpoint's answer: reject a non-200, else
\* take access_token from the body, call the userinfo endpoint and suspend.
CallbackToken(r) ==
    /\ reqs[r].op = "callback" /\ reqs[r].pc = "await_token"
    /\ \E status \in TokenStatuses, tok \in AccessTokens :
        /\ status # OK => tok = NONE
        /\ IF TokenFailed(status)
           THEN Complete(r, [reqs[r] EXCEPT !.token_status = status,
                                 !.response = JSONResponse("Failed to get token", 400)])
           ELSE /\ reqs' = [reqs EXCEPT ![r].pc = "await_userinfo",
                                        ![r].token_status = status,
                                        ![r].access_token = tok,
                                        ![r].calls = Append(@, "userinfo")]
                /\ UNCHANGED <<jar, last, awaiting>>
    /\ UNCHANGED <<session_store, issued, loggedOut, created, environ, controller>>

\* callback resumed with the userinfo endpoint's answer: the status is not
\* looked at; the body becomes the identity, a session is stored under a new
\* uuid4 and the redirect with the cookie is returned.
CallbackUserinfo(r) ==
    /\ reqs[r].op = "callback" /\ reqs[r].pc = "await_userinfo"
    /\ \E status \in UserStatuses :
       \E user_info \in UserBodies(status), session_id \in uuid4(issued) :
        /\ issued' = issued \cup {session_id}
        /\ created' = created \cup {session_id}
        /\ session_store' = StoreSet(session_store, session_id,
                                     SessionRecord(user_info, reqs[r].access_token))
        /\ Complete(r, [reqs[r] EXCEPT !.user_status = status, !.user_info = user_info,
                                       !.response = CallbackSuccessResponse(session_id)])
    /\ UNCHANGED <<loggedOut, environ, controller>>

\* ------------------------------------------------------------------ logout
\* The store after logout's `if session_id and session_id in store: del ...`
LogoutStoreKeeps(store, session_id) == store
LogoutStoreClears(store, session_id) == EmptyStore
LogoutStore(store, session_id) ==
    IF ~Falsy(session_id) /\ StoreContains(store, session_id)
    THEN StoreDel(store, session_id)
    ELSE store

LogoutResponse == delete_cookie(RedirectResponse("/login"), "session_id")

\* logout has no await: the whole handler is one step.
Logout(r, b) ==
    /\ Fresh(r)
    /\ \E c \in RequestCookies(b) :
        /\ session_store' = LogoutStore(session_store, c)
        /\ loggedOut' = IF c = NONE THEN loggedOut ELSE loggedOut \cup {c}
        /\ Complete(r, [IdleReq EXCEPT !.op = "logout", !.browser = b, !.cookie = c,
                                       !.found = StoreContains(session_store, c),
                                       !.response = LogoutResponse])
    /\ UNCHANGED <<issued, created, environ, controller>>

\* ---------------------------------------------------------- exchange_token
\* Session ids exchange_token can be called with.
SessionIdArgs == {Forged} \cup issued

\* `if session_id not in self.session_store` (negated)
SessionKnownAlways(store, session_id) == TRUE
SessionKnown(store, session_id) == StoreContains(store, session_id)

\* `if not subject_token`
NoSubjectTokenNever(subject_token) == FALSE
NoSubjectToken(subject_token) == Falsy(subject_token)

\* The store after exchange_token: it only reads (`in`, `[...]`, `.get`).
ExchangeStorePops(store, session_id) == StoreDel(store, session_id)
ExchangeStore(store, session_id) == store

\* What the caller of exchange_token gets when it raises instead of returning.
Raised == "raised KeyError"

\* exchange_token up to its await: unknown session or no access token -> None,
\* else post the token-exchange grant and suspend.  The membership test and
\* the read of the record are in the same segment.
ExchangeStart(r) ==
    /\ Fresh(r)
    /\ \E session_id \in SessionIdArgs, target_client \in TargetClients :
        LET known == SessionKnown(session_store, session_id)
            record == IF known THEN StoreGet(session_store, session_id)
                      ELSE SessionRecord(NONE, NONE)
            subject_token == record.access_token
            req == [IdleReq EXCEPT !.op = "exchange", !.sid = session_id,
                                   !.found = known, !.access_token = subject_token]
        IN  /\ session_store' = ExchangeStore(session_store, session_id)
            /\ IF ~known
               THEN Complete(r, [req EXCEPT !.result = NONE])
               ELSE IF record = KeyError
               THEN Complete(r, [req EXCEPT !.result = Raised])
               ELSE IF NoSubjectToken(subject_token)
               THEN Complete(r, [req EXCEPT !.result = NONE])
               ELSE /\ reqs' = [reqs EXCEPT ![r] =
                          [req EXCEPT !.pc = "await_exchange",
                                      !.calls = <<"token-exchange">>]]
                    /\ UNCHANGED <<jar, last, awaiting>>
    /\ UNCHANGED <<issued, loggedOut, created, environ, controller>>

\* What exchange_token returns for the provider's answer.
ExchangeResultAlways(status, body) == body
ExchangeResult(status, body) == IF status # OK THEN NONE ELSE body

\* exchange_token resumed with the token endpoint's answer.
ExchangeResponse(r) ==
    /\ reqs[r].op = "exchange" /\ reqs[r].pc = "await_exchange"
    /\ \E status \in TokenStatuses, body \in ExchangedTokens :
        Complete(r, [reqs[r] EXCEPT !.exch_status = status, !.exch_body = body,
                                    !.result = ExchangeResult(status, body)])
    /\ UNCHANGED <<session_store, issued, loggedOut, created, environ, controller>>

\* ------------------------------------------------------ request interceptor
\* The public_paths the application registers the interceptor with.
PublicPathsAll ==
    {"/", "/public", "/login", "/oidc/callback", "/oidc/logout", "/protected", "/api/data"}
PublicPathsNone == {"/login", "/oidc/callback", "/oidc/logout"}
PublicPaths == {"/", "/public", "/login", "/oidc/callback", "/oidc/logout"}

\* Step 1: classify the path.
IsPublic(path) == path \in PublicPaths

\* Steps 2-3: the identity behind the session cookie, none when the cookie is
\* absent or is no key of the store.
ResolveIdentity(store, cookie) ==
    IF cookie # NONE /\ StoreContains(store, cookie) THEN store[cookie].user ELSE NONE

\* Step 5: what a protected request without identity is answered with; which of
\* the two is a matter of policy.
ShortCircuitResponses ==
    {RedirectResponse("/login"), JSONResponse("Unauthorized", 401)}

\* The application's route handlers, reading request.state.user.
Route(path, user) ==
    CASE path = "/" ->
            IF ~Falsy(user) THEN HTMLResponse("Welcome, " \o user)
            ELSE HTMLResponse("You are not logged in.")
      [] path = "/protected" ->
            IF ~Falsy(user) THEN HTMLResponse("Protected Content for " \o user)
            ELSE RedirectResponse("/login")
      [] path = "/public" -> HTMLResponse("Public Content")
      [] path = "/api/data" ->
            IF ~Falsy(user) THEN JSONResponse("This is sensitive API data: " \o user, OK)
            ELSE JSONResponse("You should not see this if unauthenticated", OK)

\* One request to an application route: the interceptor runs, then (unless it
\* short-circuits) the route handler.  No await in between.
AppRequest(r, b) ==
    /\ Fresh(r)
    /\ \E path \in AppPaths, c \in RequestCookies(b) :
        LET user == ResolveIdentity(session_store, c)
            req == [IdleReq EXCEPT !.op = "app", !.browser = b, !.cookie = c,
                                   !.path = path, !.identity = user,
                                   !.found = StoreContains(session_store, c)]
        IN  IF ~IsPublic(path) /\ user = NONE
            THEN \E resp \in ShortCircuitResponses :
                    Complete(r, [req EXCEPT !.invoked = FALSE, !.response = resp])
            ELSE Complete(r, [req EXCEPT !.invoked = TRUE,
                                         !.response = Route(path, user)])
    /\ UNCHANGED <<session_store, issued, loggedOut, created, environ, controller>>

Next ==
    \/ Startup
    \/ \E r \in Slots :
        \/ \E b \in Browsers : Login(r, b)
        \/ \E b \in Browsers : CallbackStart(r, b)
        \/ CallbackToken(r)
        \/ CallbackUserinfo(r)
        \/ \E b \in Browsers : Logout(r, b)
        \/ ExchangeStart(r)
        \/ ExchangeResponse(r)
        \/ \E b \in Browsers : AppRequest(r, b)

Spec == Init /\ [][Next]_vars

\* Start-up from any environment, then logins served by the controller built.
NextConfig ==
    \/ Startup
    \/ \E r \in Slots, b \in Browsers : Login(r, b)

SpecConfig == InitConfig /\ [][NextConfig]_vars
\* ------------------------------------------------------- shared vocabulary
\* This step completes a request (its response is produced in this step).
StepCompletes == \E r \in Slots : reqs[r].pc # "closed" /\ reqs'[r].pc = "closed"

\* The browser holds a cookie that names a stored session.
Authenticated(b) == jar[b] # NONE /\ jar[b] \in DOMAIN session_store

\* The store differs from `store` by exactly the new key k.
AddsExactly(store, k, after) ==
    /\ k \notin DOMAIN store
    /\ DOMAIN after = DOMAIN store \cup {k}
    /\ \A x \in DOMAIN store : after[x] = store[x]

\* The store differs from `store` by exactly the removed key k.
RemovesExactly(store, k, after) ==
    /\ k \in DOMAIN store
    /\ DOMAIN after = DOMAIN store \ {k}
    /\ \A x \in DOMAIN after : after[x] = store[x]

\* The response is a redirect to url carrying exactly one Set-Cookie, which
\* sets session_id to v.
RedirectWithSessionCookie(resp, url, v) ==
    /\ resp.kind = "redirect" /\ resp.location = url
    /\ Len(resp.cookies) = 1
    /\ resp.cookies[1].key = "session_id"
    /\ resp.cookies[1].value = v
    /\ ~resp.cookies[1].expired

\* The response is a redirect to /login whose only Set-Cookie clears session_id.
RedirectClearingCookie(resp) ==
    /\ resp.kind = "redirect" /\ resp.location = "/login"
    /\ Len(resp.cookies) = 1
    /\ resp.cookies[1].key = "session_id"
    /\ resp.cookies[1].expired

\* The response is the 400 JSON error with the given message and no cookie.
IsError400(resp, msg) ==
    resp.kind = "json" /\ resp.status = 400 /\ resp.body = msg /\ resp.cookies = <<>>

\* ------------------------------------------------------------------ claims

\* C1: every callback that carries a code and whose token request is answered
\* with success adds exactly one record to the store, under a uuid4 value never
\* produced before, holding the userinfo body as identity and the token
\* endpoint's access_token, and answers with a redirect to "/" carrying exactly
\* one session_id cookie whose value is the new key.
C1_CallbackCreatesOneFreshSession ==
    [][ (StepCompletes /\ last'.op = "callback" /\ last'.code \notin {NONE, EMPTY}
            /\ last'.token_status = OK)
        => \E sid \in DOMAIN session_store' :
              /\ sid \notin issued
              /\ AddsExactly(session_store, sid, session_store')
              /\ session_store'[sid].user = last'.user_info
              /\ session_store'[sid].access_token = last'.access_token
              /\ \E r \in Slots : /\ reqs[r].pc = "await_userinfo"
                                  /\ reqs'[r].pc = "closed"
                                  /\ reqs[r].access_token = last'.access_token
              /\ RedirectWithSessionCookie(last'.response, "/", sid) ]_vars

C1_Witness ==
    /\ last.op = "callback" /\ last.token_status = OK
    /\ last.access_token = "tok1" /\ last.user_info = "alice"
    /\ last.response.kind = "redirect"
    /\ last.response.cookies[1].value \in DOMAIN session_store

\* C2: once a logout bearing cookie value c has completed, c is never a key of
\* the store again, so a request bearing c resolves to no identity, whether or
\* not c named a record when logout ran.
C2_LoggedOutCookieStaysInvalid ==
    \A c \in loggedOut :
        /\ c \notin DOMAIN session_store
        /\ ResolveIdentity(session_store, c) = NONE

\* a cookie was logged out and a later callback has created another session
C2_Witness ==
    /\ \E c \in loggedOut : c \in issued
    /\ last.op = "callback" /\ last.response.kind = "redirect"
    /\ DOMAIN session_store # {}

\* C3: a callback without a code (absent or empty) answers 400 "Missing code"
\* and leaves the store unchanged.
C3_MissingCodeRejected ==
    [][ (StepCompletes /\ last'.op = "callback" /\ last'.code \in {NONE, EMPTY})
        => /\ IsError400(last'.response, "Missing code")
           /\ session_store' = session_store
           /\ issued' = issued ]_vars

C3_Witness ==
    /\ last.op = "callback" /\ last.code = EMPTY
    /\ last.response.status = 400
    /\ DOMAIN session_store # {}

\* C4 as stated: a callback whose token request is answered with a non-success
\* status answers 400 "Failed to get token" without a cookie, and its browser is
\* Unauthenticated afterwards.
C4_FailedTokenLeavesUnauthenticated ==
    (last.op = "callback" /\ last.token_status \notin {0, OK})
    => /\ IsError400(last.response, "Failed to get token")
       /\ ~Authenticated(last.browser)

\* C4 as amended: such a callback answers 400 "Failed to get token" without a
\* cookie and changes neither the store nor any browser's cookie, so its
\* browser is Authenticated afterwards exactly if it was before.
C4_FailedTokenChangesNothing ==
    [][ (StepCompletes /\ last'.op = "callback" /\ last'.token_status \notin {0, OK})
        => /\ IsError400(last'.response, "Failed to get token")
           /\ session_store' = session_store
           /\ issued' = issued
           /\ jar' = jar ]_vars

C4_Witness ==
    /\ last.op = "callback" /\ last.token_status = 400
    /\ last.response.body = "Failed to get token"
    /\ ~Authenticated(last.browser)
    /\ \E b \in Browsers : Authenticated(b)

\* C5: a callback whose token request succeeds and whose userinfo request is
\* answered with a non-success status answers with a 4xx error, sets no cookie
\* and leaves no record of its own in the store.
C5_UserinfoFailureRejected ==
    (last.op = "callback" /\ last.token_status = OK /\ last.user_status \notin {0, OK})
    => /\ last.response.status \in 400..499
       /\ last.response.cookies = <<>>
       /\ \A k \in DOMAIN session_store : session_store[k].user # last.user_info

\* C6: exchange_token returns None when the session id was not in the store,
\* when the record held no access token, or when the provider answered with a
\* non-success status; a token is returned only for a stored session with an
\* access token and a provider success, and it is the provider's access_token.
C6_ExchangeTokenResult ==
    last.op = "exchange" =>
        /\ (~last.found \/ last.access_token \in {NONE, EMPTY} \/ last.exch_status # OK)
              => last.result = NONE
        /\ last.result # NONE
              => /\ last.found
                 /\ last.access_token \notin {NONE, EMPTY}
                 /\ last.exch_status = OK
                 /\ last.result = last.exch_body

C6_Witness ==
    last.op = "exchange" /\ last.result = "xtok1" /\ last.access_token = "tok1"

\* C7: a request to a path outside the public set whose cookie is absent or is
\* no key of the store never reaches its route handler: it is answered with a
\* redirect to /login or with 401.
C7_ProtectedWithoutSessionShortCircuits ==
    (last.op = "app" /\ last.path \in {"/protected", "/api/data"}
        /\ (last.cookie = NONE \/ last.cookie \notin DOMAIN session_store))
    => /\ ~last.invoked
       /\ \/ last.response.kind = "redirect" /\ last.response.location = "/login"
          \/ last.response.status = 401

C7_Witness ==
    /\ last.op = "app" /\ last.path = "/api/data"
    /\ last.cookie \in issued /\ last.cookie \notin DOMAIN session_store
    /\ ~last.invoked

\* C8: a request to a public path always reaches its route handler and is never
\* redirected or rejected; the identity attached is none when the cookie is
\* absent or unknown to the store, else the identity of the record it names.
C8_PublicPathsPassThrough ==
    (last.op = "app" /\ last.path \in {"/", "/public"})
    => /\ last.invoked
       /\ last.response.kind = "html" /\ last.response.status = OK
       /\ last.identity =
            IF last.cookie = NONE \/ last.cookie \notin DOMAIN session_store
            THEN NONE
            ELSE session_store[last.cookie].user

C8_Witness ==
    /\ last.op = "app" /\ last.path = "/"
    /\ last.cookie \in DOMAIN session_store
    /\ last.identity = "alice"
    /\ last.invoked

\* C9: the session identifiers issued by successful callbacks are pairwise
\* distinct: each is a value never produced before, callback never writes over
\* a key already in the store, and no two browsers hold the same identifier.
C9_SessionIdsUnique ==
    [][ /\ (StepCompletes /\ last'.op = "callback" /\ last'.response.kind = "redirect")
           => LET sid == last'.response.cookies[1].value
              IN  /\ sid \notin issued
                  /\ sid \notin DOMAIN session_store
                  /\ sid \notin loggedOut
                  /\ \A b \in Browsers : jar[b] # sid
        /\ \A b1, b2 \in Browsers :
              (b1 # b2 /\ jar'[b1] # NONE) => jar'[b1] # jar'[b2] ]_vars

\* two sessions live at once, held by two browsers
C9_Witness ==
    /\ Cardinality(DOMAIN session_store) = 2
    /\ \A b \in Browsers : Authenticated(b)

\* C10: logout never fails and is idempotent: without a cookie naming a stored
\* record the store is unchanged, with one exactly that record is removed, the
\* response is in both cases the redirect to /login clearing session_id, and a
\* second logout with the same cookie changes nothing more.
C10_LogoutIdempotent ==
    [][ (StepCompletes /\ last'.op = "logout")
        => LET c == last'.cookie
           IN  /\ RedirectClearingCookie(last'.response)
               /\ IF c # NONE /\ c \in DOMAIN session_store
                  THEN RemovesExactly(session_store, c, session_store')
                  ELSE session_store' = session_store
               /\ LogoutStore(session_store', c) = session_store' ]_vars

\* a logout removed one record and left another in place
C10_Witness ==
    /\ last.op = "logout" /\ last.found
    /\ DOMAIN session_store # {}
    /\ last.cookie \notin DOMAIN session_store

\* C11: a session id is a key of the store exactly if a callback that finished
\* with its success response stored a record under it and no logout bearing it
\* has completed since.
C11_StoreIsCreatedMinusLoggedOut ==
    \A k \in UUIDs \cup {Forged} :
        k \in DOMAIN session_store <=> (k \in created /\ k \notin loggedOut)

\* one record created and logged out again, another created and still stored
C11_Witness ==
    /\ created \cap loggedOut # {}
    /\ DOMAIN session_store # {}
    /\ last.op = "callback"

\* C12: callback creates a session only for a request that presents the state
\* value a preceding login issued to the same browser.
C12_SessionOnlyForIssuedState ==
    (last.op = "callback" /\ last.response.kind = "redirect")
    => /\ last.state # NONE
       /\ last.state = last.awaited

\* C13: under every interleaving of the handlers' segments no store update is
\* lost: a completing callback's record is in the store with its contents, and
\* a stored record keeps its contents in every step and leaves the store only
\* in the step of a logout bearing its own identifier.
C13_NoLostUpdate ==
    [][ /\ \A k \in DOMAIN session_store :
              /\ k \notin DOMAIN session_store'
                    => (StepCompletes /\ last'.op = "logout" /\ last'.cookie = k)
              /\ k \in DOMAIN session_store'
                    => session_store'[k] = session_store[k]
        /\ (StepCompletes /\ last'.op = "callback" /\ last'.response.kind = "redirect")
              => LET sid == last'.response.cookies[1].value
                 IN  /\ sid \in DOMAIN session_store'
                     /\ session_store'[sid].user = last'.user_info
                     /\ session_store'[sid].access_token = last'.access_token ]_vars

\* a callback completed while an exchange_token for another, still stored
\* session was suspended at its provider call
C13_Witness ==
    /\ last.op = "callback" /\ last.response.kind = "redirect"
    /\ Cardinality(DOMAIN session_store) = 2
    /\ \E r \in Slots : /\ reqs[r].pc = "await_exchange"
                        /\ reqs[r].sid \in DOMAIN session_store
                        /\ reqs[r].sid # last.response.cookies[1].value

\* C14: the controller is never built, and no request is ever served, with a
\* required provider setting missing or empty.
C14_NoControllerWithEmptySetting ==
    (controller.status = "ready" \/ last.op # "idle")
    => \A f \in RequiredFields : controller.config[f] \notin {NONE, EMPTY}

\* C15: the store changes only in the step of a successful callback, which adds
\* one record, and of a logout whose cookie names a stored record, which
\* removes that record; login, a failed callback, exchange_token and a request
\* to an application route leave membership and contents as they are.
C15_OnlyCallbackAndLogoutChangeStore ==
    [][ /\ session_store' # session_store
           => /\ StepCompletes
              /\ \/ /\ last'.op = "callback" /\ last'.response.kind = "redirect"
                    /\ \E sid \in DOMAIN session_store' :
                          AddsExactly(session_store, sid, session_store')
                 \/ /\ last'.op = "logout"
                    /\ last'.cookie \in DOMAIN session_store
                    /\ RemovesExactly(session_store, last'.cookie, session_store')
        /\ \A r \in Slots :
              (reqs'[r] # reqs[r] /\ reqs'[r].op = "exchange")
                 => session_store' = session_store
        /\ (StepCompletes /\ \/ last'.op \in {"login", "exchange", "app"}
                             \/ /\ last'.op = "callback"
                                /\ last'.response.kind # "redirect")
           => session_store' = session_store ]_vars

\* exchange_token returned a token and the session it read is stored unchanged
C15_Witness ==
    /\ last.op = "exchange" /\ last.result = "xtok1"
    /\ last.sid \in DOMAIN session_store
    /\ session_store[last.sid].access_token = last.access_token

\* C16: exchange_token never raises to its caller: every completed call returned
\* a token or no token, also when a logout bearing the same session id ran
\* between its start and its return; the membership test and the read of the
\* record are never separated by a logout.
C16_ExchangeNeverRaises ==
    /\ last.op = "exchange" => last.result \in {NONE, "xtok1"}
    /\ \A r \in Slots :
          reqs[r].pc = "await_exchange"
             => reqs[r].found /\ reqs[r].access_token \notin {NONE, EMPTY, "raised KeyError"}

\* an exchange_token call completed after a logout removed the session it had
\* found present
C16_Witness ==
    /\ last.op = "exchange" /\ last.found
    /\ last.sid \in loggedOut /\ last.sid \notin DOMAIN session_store
    /\ last.exch_status # 0

\* C17: in every reachable state every record of the session store holds a
\* non-empty access_token.
C17_StoredAccessTokenNonEmpty ==
    \A k \in DOMAIN session_store : session_store[k].access_token \notin {NONE, EMPTY}

\* C18 as stated: exchange_token returns a token only if the session is still
\* in the store when exchange_token returns.
C18_TokenOnlyWhileSessionStored ==
    (last.op = "exchange" /\ last.result # NONE) => last.sid \in DOMAIN session_store

\* C18, amended: exchange_token returns a token only if the session was in the
\* store with an access token when the call began.  A call that begins after a
\* logout bearing that cookie has completed returns no token without contacting
\* the provider; a call suspended at its provider call began before the logout
\* and still returns what the provider answers.
C18_TokenOnlyIfStoredAtStart ==
    [][ /\ \A r \in Slots :
              (reqs[r].pc = "idle" /\ reqs'[r].pc = "await_exchange")
                 => /\ reqs'[r].sid \in DOMAIN session_store
                    /\ reqs'[r].sid \notin loggedOut
                    /\ session_store[reqs'[r].sid].access_token \notin {NONE, EMPTY}
                    /\ reqs'[r].access_token = session_store[reqs'[r].sid].access_token
        /\ \A r \in Slots :
              (reqs[r].pc = "idle" /\ reqs'[r].pc = "closed" /\ last'.op = "exchange"
                  /\ last'.sid \notin DOMAIN session_store)
                 => last'.result = NONE /\ last'.calls = <<>>
        /\ (StepCompletes /\ last'.op = "exchange" /\ last'.result # NONE)
              => \E r \in Slots : /\ reqs[r].pc = "await_exchange"
                                  /\ reqs'[r].pc = "closed"
                                  /\ last'.sid = reqs[r].sid
                                  /\ last'.exch_status = 200
                                  /\ last'.result = last'.exch_body ]_vars

\* a suspended exchange_token returned a token after a logout removed its session
C18_Witness ==
    /\ last.op = "exchange" /\ last.result = "xtok1"
    /\ last.sid \in loggedOut /\ last.sid \notin DOMAIN session_store

\* C19 as stated: in every reachable state every record of the session store is
\* named by the session cookie some browser holds, so no browser has left a
\* record behind that no cookie reaches.
C19_EveryRecordHeldByABrowser ==
    /\ \A k \in DOMAIN session_store : \E b \in Browsers : jar[b] = k
    /\ Cardinality(DOMAIN session_store) <= Cardinality(Browsers)

\* C19, amended: a successful callback stores one new record and makes it the
\* one named by the calling browser's session cookie; it removes nothing, so the
\* record the browser's previous cookie named stays in the store, and a browser's
\* cookie only ever names an identifier that callback issued.
C19_CallbackReplacesCookieKeepsRecords ==
    [][ /\ (StepCompletes /\ last'.op = "callback" /\ last'.response.kind = "redirect")
           => /\ \E sid \in DOMAIN session_store' \ DOMAIN session_store :
                    /\ jar'[last'.browser] = sid
                    /\ \A b \in Browsers \ {last'.browser} : jar'[b] = jar[b]
              /\ \A k \in DOMAIN session_store :
                    k \in DOMAIN session_store' /\ session_store'[k] = session_store[k]
        /\ \A b \in Browsers : jar'[b] = NONE \/ jar'[b] \in created' ]_vars

\* after a second successful callback of one browser the record of its first
\* session is still stored and no browser's cookie names it
C19_Witness ==
    /\ last.op = "callback" /\ last.response.kind = "redirect"
    /\ jar[last.browser] \in DOMAIN session_store
    /\ \E k \in DOMAIN session_store : \A b \in Browsers : jar[b] # k
    /\ \A b \in Browsers \ {last.browser} : jar[b] = NONE
    /\ loggedOut = {}

\* The provider endpoints a callback has contacted, in order, against where it
\* stands: none when the code is missing, the token endpoint first, the userinfo
\* endpoint only after the token endpoint answered 200.
CallsInOrder(q) ==
    /\ q.code \in {NONE, EMPTY} => q.calls = <<>> /\ q.pc \notin {"await_token", "await_userinfo"}
    /\ q.pc = "await_token" => q.calls = <<"token">> /\ q.token_status = 0
    /\ q.pc = "await_userinfo" => q.calls = <<"token", "userinfo">> /\ q.token_status = 200
    /\ q.pc = "done" =>
          /\ q.calls \in {<<>>, <<"token">>, <<"token", "userinfo">>}
          /\ q.calls = <<>> <=> q.code \in {NONE, EMPTY}
          /\ q.calls = <<"token">> <=> q.token_status \notin {0, 200}
          /\ q.calls = <<"token", "userinfo">> <=> q.token_status = 200
          /\ q.response.kind = "redirect" <=> q.calls = <<"token", "userinfo">>

\* C20: within one callback no provider endpoint is contacted when the code is
\* missing, the userinfo endpoint is contacted only after the token endpoint
\* answered success, and the record is written and the cookie issued only in the
\* step after both provider calls returned: a step that leaves a callback
\* suspended changes neither the store nor any cookie.
C20_CallbackStepsInOrder ==
    [][ /\ \A r \in Slots : reqs'[r].op = "callback" => CallsInOrder(reqs'[r])
        /\ last'.op = "callback" => CallsInOrder(last')
        /\ \A r \in Slots :
              (reqs'[r] # reqs[r] /\ reqs'[r].pc \in {"await_token", "await_userinfo"})
                 => /\ session_store' = session_store
                    /\ issued' = issued /\ jar' = jar
        /\ (\E k \in DOMAIN session_store' : k \notin DOMAIN session_store)
              => \E r \in Slots : /\ reqs[r].pc = "await_userinfo"
                                  /\ reqs[r].calls = <<"token", "userinfo">>
                                  /\ reqs'[r].pc = "closed"
                                  /\ last'.response.kind = "redirect" ]_vars

\* one callback has completed with a session while another is suspended at the
\* userinfo call, and the store holds the first one's record only
C20_Witness ==
    /\ last.op = "callback" /\ last.response.kind = "redirect"
    /\ \E r \in Slots : reqs[r].pc = "await_userinfo"
    /\ Cardinality(DOMAIN session_store) = 1
    /\ issued = DOMAIN session_store
====
